---- MODULE Spec2Model ----
(***************************************************************************)
(* Model of app.py, the Flask backend of AI_NovelGenerator: the JSON       *)
(* configuration store, the helpers that validate the selected LLM and     *)
(* embedding configuration, and the route handlers that validate a request,*)
(* delegate to one external function and map its result or exception to a  *)
(* JSON response.                                                          *)
(*                                                                         *)
(* JSON values are modelled by their kind, which is all the code looks at: *)
(*   "num"    a non-zero number            "zero"   the number 0           *)
(*   "numstr" a string int()/float() take  "word"   any other non-empty    *)
(*   "empty"  the empty string                      string                 *)
(*   "null"   JSON null / Python None                                      *)
(* A JSON object is a function from its keys to values; a key the object   *)
(* lacks is outside its DOMAIN.                                            *)
(***************************************************************************)
EXTENDS Integers, Sequences, FiniteSets, TLC

VARIABLES
    configFile,   \* the configuration document on disk, or NoFile
    dirs,         \* the project directories that exist under the base path
    files,        \* the text files of the request's project as the handler finds them
    req,          \* the request handled last
    resp,         \* the response returned for it
    calls,        \* the delegated external calls made while handling it, in order
    lastSaved,    \* the document of the last POST /api/config answered "Configuration saved."
    tmp,          \* the temporary folder: what each upload path holds
    handlers,     \* the knowledge imports in progress, one per server thread
    threaded      \* whether the server handles requests on concurrent threads

vars == <<configFile, dirs, files, req, resp, calls, lastSaved, tmp, handlers, threaded>>

\* the state of the knowledge imports in progress
importVars == <<tmp, handlers, threaded>>

----------------------------------------------------------------------------
(* JSON values and Python's conversions of them *)

JsonScalars == {"num", "zero", "numstr", "word", "empty", "null"}

\* Python truthiness: `not v` is true of 0, "" and None
Truthy(v) == v \in {"num", "numstr", "word"}

\* int(v) / float(v): the exception raised, or "ok"
int(v) ==
    CASE v \in {"num", "zero", "numstr"} -> "ok"
      [] v \in {"word", "empty"}         -> "ValueError"
      [] OTHER                           -> "TypeError"

float(v) == int(v)

EmptyDict == [k \in {} |-> "null"]

\* dict.get(key, default)
Get(d, key, default) == IF key \in DOMAIN d THEN d[key] ELSE default

\* the dict without one key
Without(d, key) == [k \in DOMAIN d \ {key} |-> d[k]]

\* the dict with one key set
With(d, key, v) == [k \in DOMAIN d \cup {key} |-> IF k = key THEN v ELSE d[k]]

\* Python's exception hierarchy, as far as the handlers' except clauses see it
IsInstance(exc, cls) ==
    \/ exc = cls
    \/ cls = "Exception"
    \/ cls = "OSError" /\ exc = "FileNotFoundError"

----------------------------------------------------------------------------
(* The configuration store: config_manager.load_config / save_config *)

\* the state of the configuration file: absent, or holding a document
NoFile == [exists |-> FALSE, doc |-> EmptyDict]

FileWith(doc) == [exists |-> TRUE, doc |-> doc]

\* load_config(path): the stored document, the empty dict when there is no file
load_config(file) == IF file.exists THEN file.doc ELSE EmptyDict

\* save_config(data, path): the document is written as given and True returned;
\* when the write fails the file is left as it was (False returned, or an exception)
save_config(data, file, outcome) == IF outcome = "ok" THEN FileWith(data) ELSE file

----------------------------------------------------------------------------
(* get_llm_config / get_embedding_config *)

LLMRequiredKeys == <<"api_key", "model_name", "temperature", "max_tokens", "timeout">>

EmbeddingRequiredKeys == <<"api_key", "model_name">>

\* missing_keys without the emptiness test: [key for key in required_keys if key not in cfg]
missing_keys_absent_only(required_keys, cfg) ==
    SelectSeq(required_keys, LAMBDA key : key \notin DOMAIN cfg)

\* [key for key in required_keys if key not in cfg or not cfg[key]]
missing_keys(required_keys, cfg) ==
    SelectSeq(required_keys, LAMBDA key : key \notin DOMAIN cfg \/ ~Truthy(cfg[key]))

NoConfig == [cfg |-> EmptyDict, iface |-> "none"]

get_llm_config(config) ==
    IF DOMAIN config = {}
    THEN NoConfig @@ [err |-> "Config file not found or empty."]
    ELSE LET last_llm_interface == Get(config, "last_interface_format", "OpenAI")
             llm_configs == Get(config, "llm_configs", EmptyDict)
         IN  IF last_llm_interface \notin DOMAIN llm_configs
             THEN NoConfig @@ [err |-> "not found in llm_configs."]
             ELSE LET current_llm_config == llm_configs[last_llm_interface]
                      required_keys ==
                          IF last_llm_interface = "OpenAI"
                          THEN Append(LLMRequiredKeys, "base_url")
                          ELSE LLMRequiredKeys
                  IN  IF missing_keys(required_keys, current_llm_config) # <<>>
                      THEN NoConfig @@ [err |-> "missing or has empty values for required keys"]
                      ELSE [cfg |-> current_llm_config, iface |-> last_llm_interface,
                            err |-> "none"]

get_embedding_config(config) ==
    IF DOMAIN config = {}
    THEN NoConfig @@ [err |-> "Config file not found or empty."]
    ELSE LET last_embedding_interface ==
                 Get(config, "last_embedding_interface_format", "OpenAI")
             embedding_configs == Get(config, "embedding_configs", EmptyDict)
         IN  IF last_embedding_interface \notin DOMAIN embedding_configs
             THEN NoConfig @@ [err |-> "not found in embedding_configs."]
             ELSE LET current_embedding_config ==
                          embedding_configs[last_embedding_interface]
                  IN  IF missing_keys(EmbeddingRequiredKeys, current_embedding_config) # <<>>
                      THEN NoConfig @@ [err |-> "missing or has empty values for required keys"]
                      ELSE [cfg |-> current_embedding_config,
                            iface |-> last_embedding_interface, err |-> "none"]

----------------------------------------------------------------------------
(* Configuration documents *)

GoodLLM ==
    [api_key |-> "word", base_url |-> "word", model_name |-> "word",
     temperature |-> "num", max_tokens |-> "num", timeout |-> "num"]

GoodEmbedding == [api_key |-> "word", model_name |-> "word"]

\* the document the tests install (test_app.py, setUp)
dummy_config_data ==
    [last_interface_format |-> "TestLLM",
     llm_configs |-> [TestLLM |-> GoodLLM],
     last_embedding_interface_format |-> "TestEmbed",
     embedding_configs |-> [TestEmbed |-> GoodEmbedding],
     other_params |-> EmptyDict]

\* a document that relies on the "OpenAI" defaults of both helpers
OpenAIConfig ==
    [llm_configs |-> [OpenAI |-> GoodLLM],
     embedding_configs |-> [OpenAI |-> GoodEmbedding]]

WithLLM(doc, iface, entry) == With(doc, "llm_configs", With(doc.llm_configs, iface, entry))

\* the documents a client posts and the file starts with
ConfigDocs ==
    { EmptyDict,
      dummy_config_data,
      OpenAIConfig,
      With(dummy_config_data, "new_key", "word"),
      [new_key |-> "word"],
      With(dummy_config_data, "llm_configs", EmptyDict),
      WithLLM(OpenAIConfig, "OpenAI", Without(GoodLLM, "base_url")),
      WithLLM(dummy_config_data, "TestLLM", Without(GoodLLM, "base_url")),
      WithLLM(dummy_config_data, "TestLLM", With(GoodLLM, "temperature", "zero")),
      WithLLM(dummy_config_data, "TestLLM", With(GoodLLM, "temperature", "word")),
      WithLLM(dummy_config_data, "TestLLM", With(GoodLLM, "api_key", "empty")),
      With(dummy_config_data, "embedding_configs",
           [TestEmbed |-> With(GoodEmbedding, "api_key", "empty")])
    }

----------------------------------------------------------------------------
(* Projects, requests, responses *)

\* how many project names the model tells apart (the default one included)
NumProjects == 2

ProjectPool == <<"default_project", "default_project_test", "alpha", "beta">>

ProjectNames == {ProjectPool[i] : i \in 1..NumProjects}

\* get_projects_base_path()
get_projects_base_path == "novel_projects"

\* os.path.join(base, name)
join(base, name) == <<base, name>>

NoPath == <<>>

\* the kinds of JSON body a client sends; "array", "string" and "number" are
\* non-empty / non-zero, so they are truthy and are no dict
BodyKinds == {"null", "array", "string", "number", "emptyobj", "object"}

IsDict(body) == body \in {"emptyobj", "object"}

\* `not data`
BodyTruthy(body) == body \in {"array", "string", "number", "object"}

\* the values a numeric request field is given
FieldValues == {"num", "word"}

Dicts(keys) == UNION {[S -> FieldValues] : S \in SUBSET keys}

\* project_name in a request: the key is absent, names a project, or is no string
ReqProjectNames == {"absent", "nonstring"} \cup (ProjectNames \ {"default_project"})

\* the requests to one JSON endpoint that reads the given numeric fields
JsonRequests(ep, keys) ==
    {[ep |-> ep, body |-> b, project_name |-> "absent", fields |-> EmptyDict,
      doc |-> EmptyDict] : b \in BodyKinds \ {"object"}}
    \cup
    {[ep |-> ep, body |-> "object", project_name |-> p, fields |-> f, doc |-> EmptyDict] :
        p \in ReqProjectNames \ {"nonstring"}, f \in Dicts(keys)}
    \cup
    {[ep |-> ep, body |-> "object", project_name |-> "nonstring", fields |-> EmptyDict,
      doc |-> EmptyDict]}

NoRequest ==
    [ep |-> "none", body |-> "null", project_name |-> "absent", fields |-> EmptyDict,
     doc |-> EmptyDict]

\* jsonify({"status": ..., "message": ...}), code.  `raised` is the exception the
\* handler ran into ("none" when there was none) and `text` the str(e) that the
\* message carries.
Json(code, status, message, raised, text) ==
    [code |-> code, json |-> TRUE, status |-> status, message |-> message,
     raised |-> raised, text |-> text, filepath |-> NoPath, body |-> EmptyDict]

Error(code, message) == Json(code, "error", message, "none", "none")

\* an except clause that puts str(e) in the message
Caught(code, message, exc) == Json(code, "error", message, exc, exc)

\* an except clause that answers with a fixed message
Mapped(code, message, exc) == Json(code, "error", message, exc, "none")

Success(message, filepath) ==
    [Json(200, "success", message, "none", "none") EXCEPT !.filepath = filepath]

\* an exception no except clause catches: Flask answers with its own 500 page
Unhandled(exc) ==
    [code |-> 500, json |-> FALSE, status |-> "none", message |-> "Internal Server Error",
     raised |-> exc, text |-> "none", filepath |-> NoPath, body |-> EmptyDict]

NoResponse == Json(0, "none", "none", "none", "none")

\* one delegated call: the function, the project path it was given, how it ended
Call(fn, filepath, outcome) ==
    [fn |-> fn, filepath |-> filepath, plot_arcs |-> "none", outcome |-> outcome]

\* what a handler leaves behind
Done(response, made, ds) == [resp |-> response, calls |-> made, dirs |-> ds]

\* the except clauses tried from the most general one: the last that matches
Except_last(clauses, exc) ==
    LET i == CHOOSE j \in 1..Len(clauses) :
                 /\ IsInstance(exc, clauses[j].cls)
                 /\ \A k \in (j + 1)..Len(clauses) : ~IsInstance(exc, clauses[k].cls)
    IN  Caught(clauses[i].code, clauses[i].message, exc)

\* the first except clause that matches, applied
Except(clauses, exc) ==
    LET i == CHOOSE j \in 1..Len(clauses) :
                 /\ IsInstance(exc, clauses[j].cls)
                 /\ \A k \in 1..(j - 1) : ~IsInstance(exc, clauses[k].cls)
    IN  Caught(clauses[i].code, clauses[i].message, exc)

\* how an external function ends: it returns a value ("ok"), returns an empty or
\* false value ("falsy"), or raises
Raises == {"FileNotFoundError", "KeyError", "ValueError", "Exception"}

Outcomes == {"ok", "falsy"} \cup Raises

\* an outcome is drawn only for a request whose handling reaches the external call
OutcomesOf(d) == IF d.calls = <<>> THEN {"ok"} ELSE Outcomes

\* the conversions in the argument list of a generator call, left to right:
\* float(temperature), int(max_tokens), int(timeout)
llm_args(cfg) ==
    IF float(cfg.temperature) # "ok" THEN float(cfg.temperature)
    ELSE IF int(cfg.max_tokens) # "ok" THEN int(cfg.max_tokens)
    ELSE int(cfg.timeout)

\* missing_field with `and` for `or`: every one of the keys is None
missing_field_all(r, keys) == \A k \in keys : Get(r.fields, k, "null") = "null"

\* `data.get(k) is None` for one of the keys: the `x is None or y is None` tests
missing_field(r, keys) == \E k \in keys : Get(r.fields, k, "null") = "null"

\* the first exception that int() raises on the fields, in order, or "ok"
int_fields(r, keys) ==
    LET failed == SelectSeq(keys, LAMBDA k : int(Get(r.fields, k, "null")) # "ok")
    IN  IF failed = <<>> THEN "ok" ELSE int(Get(r.fields, Head(failed), "null"))

\* project_name taken as the default whatever the request says
project_of_default(r) == "default_project"

\* the project a request names
project_of(r) == IF r.project_name = "absent" THEN "default_project" ELSE r.project_name

----------------------------------------------------------------------------
(* POST /api/novel/architecture *)

ArchitectureExcept ==
    << [cls |-> "KeyError", code |-> 500, message |-> "Missing key in LLM configuration"],
       [cls |-> "ValueError", code |-> 500, message |-> "Invalid value in LLM configuration"],
       [cls |-> "Exception", code |-> 500, message |-> "Error generating novel architecture"] >>

generate_architecture_api(r, config, ds, mkdir_ok, outcome) ==
    IF ~IsDict(r.body) THEN Done(Unhandled("AttributeError"), <<>>, ds)
    ELSE IF r.project_name = "nonstring" THEN Done(Unhandled("TypeError"), <<>>, ds)
    ELSE
    LET project_name == project_of(r)
        filepath == join(get_projects_base_path, project_name)
        llm == get_llm_config(config)
        made == ds \cup {project_name}
        num_chapters == int(Get(r.fields, "num_chapters", "num"))
        word_number == int(Get(r.fields, "word_number", "num"))
    IN  IF ~mkdir_ok
        THEN Done(Caught(500, "Could not create project directory", "OSError"), <<>>, ds)
        ELSE IF llm.err # "none"
        THEN Done([Error(500, "LLM Config Error") EXCEPT !.text = llm.err], <<>>, made)
        ELSE IF ~BodyTruthy(r.body)
        THEN Done(Error(400, "Request body must be JSON."), <<>>, made)
        ELSE IF num_chapters # "ok" THEN Done(Unhandled(num_chapters), <<>>, made)
        ELSE IF word_number # "ok" THEN Done(Unhandled(word_number), <<>>, made)
        ELSE IF llm_args(llm.cfg) # "ok"
        THEN Done(Except(ArchitectureExcept, llm_args(llm.cfg)), <<>>, made)
        ELSE LET call == Call("Novel_architecture_generate", filepath, outcome)
             IN  IF outcome \in Raises
                 THEN Done(Except(ArchitectureExcept, outcome), <<call>>, made)
                 ELSE Done(Success("Novel architecture generated.", filepath), <<call>>, made)

----------------------------------------------------------------------------
(* GET and POST /api/config *)

get_config_api(file) ==
    Done([Json(200, "none", "none", "none", "none") EXCEPT !.body = load_config(file)],
         <<>>, {})

\* save_config_api answering "Configuration saved." whatever save_config returns
save_config_api_unchecked(body, doc, outcome) ==
    IF body # "object" /\ body # "emptyobj"
    THEN Done(Error(400, "Invalid configuration format. Must be a JSON object."), <<>>, {})
    ELSE LET call == Call("save_config", NoPath, outcome)
         IN  IF outcome \in Raises
             THEN Done(Caught(500, "Error saving configuration", outcome), <<call>>, {})
             ELSE Done(Json(200, "success", "Configuration saved.", "none", "none"),
                       <<call>>, {})

\* save_config_api testing `if not new_config_data` in place of isinstance(.., dict)
save_config_api_truthy(body, doc, outcome) ==
    IF ~BodyTruthy(body)
    THEN Done(Error(400, "Invalid configuration format. Must be a JSON object."), <<>>, {})
    ELSE LET call == Call("save_config", NoPath, outcome)
         IN  IF outcome \in Raises
             THEN Done(Caught(500, "Error saving configuration", outcome), <<call>>, {})
             ELSE IF outcome = "ok"
             THEN Done(Json(200, "success", "Configuration saved.", "none", "none"),
                       <<call>>, {})
             ELSE Done(Error(500, "Failed to save configuration."), <<call>>, {})

\* the response and the delegated call of POST /api/config; `doc` is the posted
\* object when the body is one
save_config_api(body, doc, outcome) ==
    IF body # "object" /\ body # "emptyobj"
    THEN Done(Error(400, "Invalid configuration format. Must be a JSON object."), <<>>, {})
    ELSE LET call == Call("save_config", NoPath, outcome)
         IN  IF outcome \in Raises
             THEN Done(Caught(500, "Error saving configuration", outcome), <<call>>, {})
             ELSE IF outcome = "ok"
             THEN Done(Json(200, "success", "Configuration saved.", "none", "none"),
                       <<call>>, {})
             ELSE Done(Error(500, "Failed to save configuration."), <<call>>, {})

----------------------------------------------------------------------------
(* POST /api/novel/blueprint *)

BlueprintExcept ==
    << [cls |-> "FileNotFoundError", code |-> 400, message |-> "Prerequisite file not found"],
       [cls |-> "KeyError", code |-> 500, message |-> "Missing key in LLM configuration"],
       [cls |-> "ValueError", code |-> 500,
        message |-> "Invalid value in LLM configuration or request"],
       [cls |-> "Exception", code |-> 500, message |-> "Error generating novel blueprint"] >>

generate_blueprint_api(r, config, ds, mkdir_ok, outcome) ==
    IF ~IsDict(r.body) THEN Done(Unhandled("AttributeError"), <<>>, ds)
    ELSE IF r.project_name = "nonstring" THEN Done(Unhandled("TypeError"), <<>>, ds)
    ELSE
    LET project_name == project_of(r)
        filepath == join(get_projects_base_path, project_name)
        llm == get_llm_config(config)
        made == ds \cup {project_name}
    IN  IF ~mkdir_ok
        THEN Done(Caught(500, "Could not create project directory", "OSError"), <<>>, ds)
        ELSE IF llm.err # "none"
        THEN Done([Error(500, "LLM Config Error") EXCEPT !.text = llm.err], <<>>, made)
        ELSE IF ~BodyTruthy(r.body)
        THEN Done(Error(400, "Request body must be JSON."), <<>>, made)
        ELSE IF missing_field(r, {"num_chapters"})
        THEN Done(Error(400, "Missing 'num_chapters' in request."), <<>>, made)
        ELSE IF int_fields(r, <<"num_chapters">>) = "ValueError"
        THEN Done(Mapped(400, "'num_chapters' must be an integer.", "ValueError"),
                  <<>>, made)
        ELSE IF int_fields(r, <<"num_chapters">>) # "ok"
        THEN Done(Unhandled(int_fields(r, <<"num_chapters">>)), <<>>, made)
        ELSE IF llm_args(llm.cfg) # "ok"
        THEN Done(Except(BlueprintExcept, llm_args(llm.cfg)), <<>>, made)
        ELSE LET call == Call("Chapter_blueprint_generate", filepath, outcome)
             IN  IF outcome \in Raises
                 THEN Done(Except(BlueprintExcept, outcome), <<call>>, made)
                 ELSE Done(Success("Novel blueprint generated.", filepath), <<call>>, made)

----------------------------------------------------------------------------
(* POST /api/novel/chapter_draft and POST /api/novel/finalize_chapter *)

ChapterExcept(fnf, last) ==
    << [cls |-> "FileNotFoundError", code |-> 400, message |-> fnf],
       [cls |-> "KeyError", code |-> 500,
        message |-> "Missing key in LLM or Embedding configuration"],
       [cls |-> "ValueError", code |-> 500,
        message |-> "Invalid value in configuration or request parameters"],
       [cls |-> "Exception", code |-> 500, message |-> last] >>

DraftExcept == ChapterExcept("Prerequisite file not found", "Error generating chapter draft")

FinalizeExcept == ChapterExcept("Required file not found", "Error finalizing chapter")

generate_chapter_draft_api(r, config, ds, mkdir_ok, outcome) ==
    IF ~IsDict(r.body) THEN Done(Unhandled("AttributeError"), <<>>, ds)
    ELSE IF r.project_name = "nonstring" THEN Done(Unhandled("TypeError"), <<>>, ds)
    ELSE
    LET project_name == project_of(r)
        filepath == join(get_projects_base_path, project_name)
        llm == get_llm_config(config)
        embedding == get_embedding_config(config)
        made == ds \cup {project_name}
    IN  IF ~mkdir_ok
        THEN Done(Caught(500, "Could not create project directory", "OSError"), <<>>, ds)
        ELSE IF llm.err # "none"
        THEN Done([Error(500, "LLM Config Error") EXCEPT !.text = llm.err], <<>>, made)
        ELSE IF embedding.err # "none"
        THEN Done([Error(500, "Embedding Config Error") EXCEPT !.text = embedding.err],
                  <<>>, made)
        ELSE IF ~BodyTruthy(r.body)
        THEN Done(Error(400, "Request body must be JSON."), <<>>, made)
        ELSE IF missing_field(r, {"novel_number", "word_number"})
        THEN Done(Error(400, "Missing 'novel_number' or 'word_number'."), <<>>, made)
        ELSE IF int_fields(r, <<"novel_number", "word_number">>) = "ValueError"
        THEN Done(Mapped(400, "'novel_number' and 'word_number' must be integers.",
                         "ValueError"), <<>>, made)
        ELSE IF int_fields(r, <<"novel_number", "word_number">>) # "ok"
        THEN Done(Unhandled(int_fields(r, <<"novel_number", "word_number">>)), <<>>, made)
        ELSE IF int(Get(r.fields, "embedding_retrieval_k", "numstr")) = "ValueError"
        THEN Done(Mapped(400, "'embedding_retrieval_k' must be an integer.", "ValueError"),
                  <<>>, made)
        ELSE IF llm_args(llm.cfg) # "ok"
        THEN Done(Except(DraftExcept, llm_args(llm.cfg)), <<>>, made)
        ELSE LET call == Call("generate_chapter_draft", filepath, outcome)
             IN  IF outcome \in Raises
                 THEN Done(Except(DraftExcept, outcome), <<call>>, made)
                 ELSE IF outcome = "ok"
                 THEN Done(Success("Chapter draft generated.", filepath), <<call>>, made)
                 ELSE Done(Error(500, "Chapter draft generation resulted in empty content."),
                           <<call>>, made)

finalize_chapter_api(r, config, ds, outcome) ==
    IF ~IsDict(r.body) THEN Done(Unhandled("AttributeError"), <<>>, ds)
    ELSE IF r.project_name = "nonstring" THEN Done(Unhandled("TypeError"), <<>>, ds)
    ELSE
    LET project_name == project_of(r)
        filepath == join(get_projects_base_path, project_name)
        llm == get_llm_config(config)
        embedding == get_embedding_config(config)
    IN  IF llm.err # "none"
        THEN Done([Error(500, "LLM Config Error") EXCEPT !.text = llm.err], <<>>, ds)
        ELSE IF embedding.err # "none"
        THEN Done([Error(500, "Embedding Config Error") EXCEPT !.text = embedding.err],
                  <<>>, ds)
        ELSE IF ~BodyTruthy(r.body)
        THEN Done(Error(400, "Request body must be JSON."), <<>>, ds)
        ELSE IF missing_field(r, {"novel_number", "word_number"})
        THEN Done(Error(400, "Missing 'novel_number' or 'word_number'."), <<>>, ds)
        ELSE IF int_fields(r, <<"novel_number", "word_number">>) = "ValueError"
        THEN Done(Mapped(400, "Invalid 'novel_number' or 'word_number', must be integers.",
                         "ValueError"), <<>>, ds)
        ELSE IF int_fields(r, <<"novel_number", "word_number">>) # "ok"
        THEN Done(Unhandled(int_fields(r, <<"novel_number", "word_number">>)), <<>>, ds)
        ELSE IF llm_args(llm.cfg) # "ok"
        THEN Done(Except(FinalizeExcept, llm_args(llm.cfg)), <<>>, ds)
        ELSE LET call == Call("finalize_chapter", filepath, outcome)
             IN  IF outcome \in Raises
                 THEN Done(Except(FinalizeExcept, outcome), <<call>>, ds)
                 ELSE Done(Success("Chapter finalized.", filepath), <<call>>, ds)

----------------------------------------------------------------------------
(* Project files and utils.read_file *)

RequiredFiles ==
    <<"Novel_architecture.txt", "character_state.txt", "global_summary.txt", "chapter_n.txt">>

FileNames == {RequiredFiles[i] : i \in 1..Len(RequiredFiles)} \cup {"plot_arcs.txt"}

AllMissing == [n \in FileNames |-> "missing"]

\* no project file was read
Unread == [n \in FileNames |-> "unread"]

\* the states a project's files are found in; none exists without the directory
FileStates(dir_exists) ==
    IF ~dir_exists THEN {AllMissing}
    ELSE [FileNames -> {"missing", "empty", "text"}]

\* read_file(path): the file's text (a non-empty string when the file holds text),
\* the empty string when there is no file
read_file(fs, name) == IF fs[name] = "text" THEN "word" ELSE "empty"

----------------------------------------------------------------------------
(* POST /api/novel/check_consistency *)

\* rejected_files without the test of the chapter file
rejected_files_no_chapter(fs) ==
    SelectSeq(SubSeq(RequiredFiles, 1, 3), LAMBDA name : ~Truthy(read_file(fs, name)))

\* the required files that `if not text: raise FileNotFoundError` rejects, in
\* reading order
rejected_files(fs) ==
    SelectSeq(RequiredFiles, LAMBDA name : ~Truthy(read_file(fs, name)))

check_consistency_api(r, config, fs, outcome) ==
    IF ~BodyTruthy(r.body) THEN Done(Error(400, "Request body must be JSON."), <<>>, {})
    ELSE IF ~IsDict(r.body) THEN Done(Unhandled("AttributeError"), <<>>, {})
    ELSE IF r.project_name = "nonstring" THEN Done(Unhandled("TypeError"), <<>>, {})
    ELSE IF missing_field(r, {"chapter_number"})
    THEN Done(Error(400, "Missing 'chapter_number'."), <<>>, {})
    ELSE IF int_fields(r, <<"chapter_number">>) = "ValueError"
    THEN Done(Mapped(400, "Invalid 'chapter_number', must be an integer.", "ValueError"),
              <<>>, {})
    ELSE IF int_fields(r, <<"chapter_number">>) # "ok"
    THEN Done(Unhandled(int_fields(r, <<"chapter_number">>)), <<>>, {})
    ELSE
    LET llm == get_llm_config(config)
        plot_arcs_text == read_file(fs, "plot_arcs.txt")
        call == [Call("check_consistency", NoPath, outcome) EXCEPT
                    !.plot_arcs = plot_arcs_text]
    IN  IF llm.err # "none"
        THEN Done([Error(500, "LLM Config Error") EXCEPT !.text = llm.err], <<>>, {})
        ELSE IF rejected_files(fs) # <<>>
        THEN Done([Caught(404, "Required file issue", "FileNotFoundError") EXCEPT
                      !.text = Head(rejected_files(fs))], <<>>, {})
        ELSE IF llm_args(llm.cfg) # "ok"
        THEN Done(Caught(500, "Error during consistency check", llm_args(llm.cfg)), <<>>, {})
        ELSE IF outcome \in Raises
        THEN Done(Caught(500, "Error during consistency check", outcome), <<call>>, {})
        ELSE Done([Json(200, "success", "consistency_report", "none", "none") EXCEPT
                      !.body = [consistency_report |-> outcome]], <<call>>, {})

----------------------------------------------------------------------------
(* GET /api/novel/plot_arcs *)

get_plot_arcs_api(r, fs) ==
    Done([Json(200, "success", "plot_arcs_text", "none", "none") EXCEPT
             !.body = [project_name |-> project_of(r),
                       plot_arcs_text |-> read_file(fs, "plot_arcs.txt")]], <<>>, {})

----------------------------------------------------------------------------
(* POST /api/vectorstore/clear *)

\* clear_vectorstore_api creating the project directory as the generator
\* endpoints do, os.makedirs(filepath, exist_ok=True), instead of testing for it
clear_vectorstore_api_makedirs(r, ds, outcome) ==
    IF ~BodyTruthy(r.body) THEN Done(Error(400, "Request body must be JSON."), <<>>, ds)
    ELSE IF ~IsDict(r.body) THEN Done(Unhandled("AttributeError"), <<>>, ds)
    ELSE IF r.project_name = "nonstring" THEN Done(Unhandled("TypeError"), <<>>, ds)
    ELSE
    LET project_name == project_of(r)
        filepath == join(get_projects_base_path, project_name)
        call == Call("clear_vector_store", filepath, outcome)
        made == ds \cup {project_name}
    IN  IF outcome \in Raises
        THEN Done(Caught(500, "Error clearing vector store", outcome), <<call>>, made)
        ELSE IF outcome = "ok"
        THEN Done(Json(200, "success", "Vector store cleared.", "none", "none"), <<call>>, made)
        ELSE Done(Error(500, "Failed to clear vector store."), <<call>>, made)

\* clear_vectorstore_api calling clear_vector_store a second time when it fails
clear_vectorstore_api_retry(r, ds, outcome) ==
    IF ~BodyTruthy(r.body) THEN Done(Error(400, "Request body must be JSON."), <<>>, ds)
    ELSE IF ~IsDict(r.body) THEN Done(Unhandled("AttributeError"), <<>>, ds)
    ELSE IF r.project_name = "nonstring" THEN Done(Unhandled("TypeError"), <<>>, ds)
    ELSE
    LET project_name == project_of(r)
        filepath == join(get_projects_base_path, project_name)
        call == Call("clear_vector_store", filepath, outcome)
    IN  IF project_name \notin ds
        THEN Done(Error(404, "Project directory not found."), <<>>, ds)
        ELSE IF outcome \in Raises
        THEN Done(Caught(500, "Error clearing vector store", outcome), <<call, call>>, ds)
        ELSE IF outcome = "ok"
        THEN Done(Json(200, "success", "Vector store cleared.", "none", "none"), <<call>>, ds)
        ELSE Done(Error(500, "Failed to clear vector store."), <<call, call>>, ds)

clear_vectorstore_api(r, ds, outcome) ==
    IF ~BodyTruthy(r.body) THEN Done(Error(400, "Request body must be JSON."), <<>>, ds)
    ELSE IF ~IsDict(r.body) THEN Done(Unhandled("AttributeError"), <<>>, ds)
    ELSE IF r.project_name = "nonstring" THEN Done(Unhandled("TypeError"), <<>>, ds)
    ELSE
    LET project_name == project_of(r)
        filepath == join(get_projects_base_path, project_name)
        call == Call("clear_vector_store", filepath, outcome)
    IN  IF project_name \notin ds
        THEN Done(Error(404, "Project directory not found."), <<>>, ds)
        ELSE IF outcome \in Raises
        THEN Done(Caught(500, "Error clearing vector store", outcome), <<call>>, ds)
        ELSE IF outcome = "ok"
        THEN Done(Json(200, "success", "Vector store cleared.", "none", "none"), <<call>>, ds)
        ELSE Done(Error(500, "Failed to clear vector store."), <<call>>, ds)

----------------------------------------------------------------------------
(* POST /api/knowledge/import *)

ALLOWED_EXTENSIONS == {"txt"}

\* a file name is the sequence of its parts between dots: "notes.txt" is
\* <<"notes", "txt">>, "" is <<>>
lower(part) == IF part = "TXT" THEN "txt" ELSE part

\* '.' in filename and filename.rsplit('.', 1)[1].lower() in ALLOWED_EXTENSIONS
allowed_file(filename) ==
    Len(filename) >= 2 /\ lower(filename[Len(filename)]) \in ALLOWED_EXTENSIONS

\* the names uploaded: none, with and without an accepted extension, and
\* "../notes.txt", a name with a path in it
UploadNames ==
    {<<>>, <<"notes">>, <<"notes", "txt">>, <<"notes", "TXT">>, <<"notes", "pdf">>,
     <<"", "", "/notes", "txt">>}

\* the multipart requests: `fields` holds the file part's name when there is one
ImportRequests ==
    {[ep |-> "import_knowledge", body |-> "null", project_name |-> p, fields |-> f,
      doc |-> EmptyDict] :
        p \in ReqProjectNames \ {"nonstring"},
        f \in {EmptyDict} \cup {[knowledge_file |-> n] : n \in UploadNames}}

import_knowledge_api(r, config, ds, save_ok, mkdir_ok, outcome) ==
    IF "knowledge_file" \notin DOMAIN r.fields
    THEN Done(Error(400, "No file part in the request."), <<>>, ds)
    ELSE IF r.fields["knowledge_file"] = <<>>
    THEN Done(Error(400, "No selected file."), <<>>, ds)
    ELSE IF ~allowed_file(r.fields["knowledge_file"])
    THEN Done(Error(400, "File type not allowed. Only .txt files are accepted."), <<>>, ds)
    ELSE
    LET project_name == project_of(r)
        filepath == join(get_projects_base_path, project_name)
        embedding == get_embedding_config(config)
        made == ds \cup {project_name}
        call == Call("import_knowledge_file", filepath, outcome)
    IN  IF ~save_ok
        THEN Done(Caught(500, "Error importing knowledge file", "OSError"), <<>>, ds)
        ELSE IF ~mkdir_ok
        THEN Done(Caught(500, "Error importing knowledge file", "OSError"), <<>>, ds)
        ELSE IF embedding.err # "none"
        THEN Done([Error(500, "Embedding Config Error") EXCEPT !.text = embedding.err],
                  <<>>, made)
        ELSE IF outcome \in Raises
        THEN Done(Caught(500, "Error importing knowledge file", outcome), <<call>>, made)
        ELSE Done(Json(200, "success", "Knowledge file imported successfully.",
                       "none", "none"), <<call>>, made)

----------------------------------------------------------------------------
(* POST /api/knowledge/import, step by step: the temporary upload file *)

\* werkzeug's secure_filename on one part of a name: the path separator becomes
\* a space and the words are joined by "_", which the final strip("._") drops
\* at the front of the name
secure_part(part) == IF part = "/notes" THEN "notes" ELSE part

RECURSIVE strip_dots(_)
\* str.strip("._") of a name: the empty parts at both ends are dropped
strip_dots(filename) ==
    IF filename = <<>> THEN <<>>
    ELSE IF Head(filename) = "" THEN strip_dots(Tail(filename))
    ELSE IF filename[Len(filename)] = "" THEN strip_dots(SubSeq(filename, 1, Len(filename) - 1))
    ELSE filename

\* secure_filename(file.filename)
secure_filename(filename) ==
    strip_dots([i \in 1..Len(filename) |-> secure_part(filename[i])])

\* os.path.join(UPLOAD_FOLDER_TEMP, filename): the paths an accepted upload is saved at
TempPaths == {secure_filename(n) : n \in {u \in UploadNames : allowed_file(u)}}

\* the server's threads
Workers == {"w1", "w2"}

\* the temporary folder with none of these paths in it; a path holds nothing
\* ("absent"), a file left there by someone else ("stale"), an upload cut short
\* ("partial"), or the whole upload of a thread's request (the thread's name)
NoTempFiles == [path \in TempPaths |-> "absent"]

\* a thread of the server with no request: `wrote` tells whether file.save has
\* written to the temporary folder for the request
IdleHandler ==
    [pc |-> "idle", req |-> NoRequest, resp |-> NoResponse, calls |-> <<>>, wrote |-> FALSE]

\* temp_file_path of a request whose upload was accepted
temp_file_path(r) == secure_filename(r.fields["knowledge_file"])

\* a return or a raise inside the try block skips the clauses that do not apply
\* and the cleanup is skipped with them
to_finally_success_only(h, response) ==
    [h EXCEPT !.pc = IF response.code = 200 THEN "exists" ELSE "done", !.resp = response]

\* a return or a raise inside the try block: the response is held and the
\* finally clause runs
to_finally(h, response) == [h EXCEPT !.pc = "exists", !.resp = response]

----------------------------------------------------------------------------
(* The server: one action per route, each the whole handler *)

NothingSaved == [set |-> FALSE, doc |-> EmptyDict]

\* os.makedirs(filepath, exist_ok=True) succeeds on a directory that exists
MkdirResults(r) == IF project_of(r) \in dirs THEN {TRUE} ELSE BOOLEAN

\* the server handles one request at a time
Idle == req.ep = "none"

\* a handler's result becomes the state; the configuration file is left alone
Respond(r, d, fs) ==
    /\ req' = r
    /\ resp' = d.resp
    /\ calls' = d.calls
    /\ dirs' = d.dirs
    /\ files' = fs
    /\ UNCHANGED <<configFile, lastSaved>>
    /\ UNCHANGED importVars

Init ==
    /\ configFile \in {NoFile} \cup {FileWith(doc) : doc \in ConfigDocs}
    /\ dirs \in SUBSET ProjectNames
    /\ files = Unread
    /\ req = NoRequest
    /\ resp = NoResponse
    /\ calls = <<>>
    /\ lastSaved = NothingSaved
    /\ tmp = NoTempFiles
    /\ handlers = [w \in Workers |-> IdleHandler]
    /\ threaded = FALSE

GenerateArchitecture ==
    /\ Idle
    /\ \E r \in JsonRequests("architecture", {"num_chapters", "word_number"}) :
        \E mkdir_ok \in MkdirResults(r) :
            \E outcome \in OutcomesOf(generate_architecture_api(
                               r, load_config(configFile), dirs, mkdir_ok, "ok")) :
                Respond(r, generate_architecture_api(r, load_config(configFile), dirs,
                                                     mkdir_ok, outcome), Unread)

GenerateBlueprint ==
    /\ Idle
    /\ \E r \in JsonRequests("blueprint", {"num_chapters"}) :
        \E mkdir_ok \in MkdirResults(r) :
            \E outcome \in OutcomesOf(generate_blueprint_api(
                               r, load_config(configFile), dirs, mkdir_ok, "ok")) :
                Respond(r, generate_blueprint_api(r, load_config(configFile), dirs,
                                                  mkdir_ok, outcome), Unread)

GenerateChapterDraft ==
    /\ Idle
    /\ \E r \in JsonRequests("chapter_draft",
                          {"novel_number", "word_number", "embedding_retrieval_k"}) :
        \E mkdir_ok \in MkdirResults(r) :
            \E outcome \in OutcomesOf(generate_chapter_draft_api(
                               r, load_config(configFile), dirs, mkdir_ok, "ok")) :
                Respond(r, generate_chapter_draft_api(r, load_config(configFile), dirs,
                                                      mkdir_ok, outcome), Unread)

FinalizeChapter ==
    /\ Idle
    /\ \E r \in JsonRequests("finalize_chapter", {"novel_number", "word_number"}) :
        \E outcome \in OutcomesOf(finalize_chapter_api(
                           r, load_config(configFile), dirs, "ok")) :
            Respond(r, finalize_chapter_api(r, load_config(configFile), dirs, outcome),
                    Unread)

CheckConsistency ==
    /\ Idle
    /\ \E r \in JsonRequests("check_consistency", {"chapter_number"}) :
        \E fs \in FileStates(project_of(r) \in dirs) :
            \E outcome \in OutcomesOf(check_consistency_api(
                               r, load_config(configFile), fs, "ok")) :
                Respond(r, [check_consistency_api(r, load_config(configFile), fs, outcome)
                                EXCEPT !.dirs = dirs], fs)

GetPlotArcs ==
    /\ Idle
    /\ \E p \in ReqProjectNames \ {"nonstring"} :
        LET r == [NoRequest EXCEPT !.ep = "plot_arcs", !.project_name = p]
        IN  \E fs \in FileStates(project_of(r) \in dirs) :
                Respond(r, [get_plot_arcs_api(r, fs) EXCEPT !.dirs = dirs], fs)

ClearVectorstore ==
    /\ Idle
    /\ \E r \in JsonRequests("vectorstore_clear", {}) :
        \E outcome \in OutcomesOf(clear_vectorstore_api(r, dirs, "ok")) :
            Respond(r, clear_vectorstore_api(r, dirs, outcome), Unread)

ImportKnowledge ==
    /\ Idle
    /\ \E r \in ImportRequests, save_ok \in BOOLEAN :
        \E mkdir_ok \in MkdirResults(r) :
            \E outcome \in OutcomesOf(import_knowledge_api(
                               r, load_config(configFile), dirs, save_ok, mkdir_ok, "ok")) :
                Respond(r, import_knowledge_api(r, load_config(configFile), dirs, save_ok,
                                                mkdir_ok, outcome), Unread)

GetConfig ==
    /\ Idle
    /\ \E r \in {[NoRequest EXCEPT !.ep = "get_config"]} :
        Respond(r, [get_config_api(configFile) EXCEPT !.dirs = dirs], Unread)

\* the bodies POST /api/config is sent: every kind that is no object, and objects
ConfigRequests ==
    {[NoRequest EXCEPT !.ep = "save_config", !.body = b] :
        b \in BodyKinds \ {"object", "emptyobj"}}
    \cup
    {[NoRequest EXCEPT !.ep = "save_config", !.doc = doc,
                       !.body = IF doc = EmptyDict THEN "emptyobj" ELSE "object"] :
        doc \in ConfigDocs}

SaveConfig ==
    /\ Idle
    /\ \E r \in ConfigRequests, outcome \in {"ok", "falsy", "Exception"} :
        LET d == save_config_api(r.body, r.doc, outcome)
            saved == d.resp.code = 200
        IN  /\ req' = r
            /\ resp' = d.resp
            /\ calls' = d.calls
            /\ configFile' = IF \E i \in 1..Len(d.calls) : d.calls[i].fn = "save_config"
                             THEN save_config(r.doc, configFile, outcome)
                             ELSE configFile
            /\ lastSaved' = IF saved THEN [set |-> TRUE, doc |-> r.doc]
                            ELSE IF d.calls # <<>> THEN NothingSaved
                            ELSE lastSaved
            /\ files' = Unread
            /\ UNCHANGED dirs
            /\ UNCHANGED importVars

\* the response is sent and the request context is torn down
NextRequest ==
    /\ ~Idle
    /\ req' = NoRequest
    /\ resp' = NoResponse
    /\ calls' = <<>>
    /\ files' = Unread
    /\ UNCHANGED <<configFile, dirs, lastSaved>>
    /\ UNCHANGED importVars

Next ==
    \/ GenerateArchitecture
    \/ GenerateBlueprint
    \/ GenerateChapterDraft
    \/ FinalizeChapter
    \/ CheckConsistency
    \/ GetPlotArcs
    \/ ClearVectorstore
    \/ ImportKnowledge
    \/ GetConfig
    \/ SaveConfig
    \/ NextRequest

Spec == Init /\ [][Next]_vars

----------------------------------------------------------------------------
(* A second specification for the configuration helpers: the configuration  *)
(* file starts with any document of LLMConfigSpace and finalize_chapter,    *)
(* which consults both helpers, is requested.                               *)

\* the value a key of an LLM entry has when it is present but empty
EmptyValue(key) ==
    CASE key = "temperature" -> "zero"
      [] key = "max_tokens"  -> "zero"
      [] key = "timeout"     -> "null"
      [] key = "base_url"    -> "null"
      [] OTHER               -> "empty"

\* every entry over the six keys: each key absent, empty, or as in GoodLLM
LLMEntries ==
    UNION {[present -> {"good", "hollow"}] : present \in SUBSET DOMAIN GoodLLM}

EntryOf(shape) ==
    [key \in DOMAIN shape |-> IF shape[key] = "good" THEN GoodLLM[key] ELSE EmptyValue(key)]

LLMConfigsSpace ==
    {EmptyDict} \cup
    {[iface \in {name} |-> EntryOf(shape)] : name \in {"OpenAI", "TestLLM"},
                                              shape \in LLMEntries}

LLMConfigSpace ==
    {EmptyDict} \cup
    {[embedding_configs |-> [OpenAI |-> GoodEmbedding]]} \cup
    {[embedding_configs |-> [OpenAI |-> GoodEmbedding], llm_configs |-> c] :
        c \in LLMConfigsSpace} \cup
    {[embedding_configs |-> [OpenAI |-> GoodEmbedding], llm_configs |-> c,
      last_interface_format |-> name] :
        c \in LLMConfigsSpace, name \in {"OpenAI", "TestLLM"}}

InitLLM ==
    /\ configFile \in {NoFile} \cup {FileWith(doc) : doc \in LLMConfigSpace}
    /\ dirs = {}
    /\ files = Unread
    /\ req = NoRequest
    /\ resp = NoResponse
    /\ calls = <<>>
    /\ lastSaved = NothingSaved
    /\ tmp = NoTempFiles
    /\ handlers = [w \in Workers |-> IdleHandler]
    /\ threaded = FALSE

NextLLM ==
    \/ FinalizeChapter
    \/ NextRequest

SpecLLM == InitLLM /\ [][NextLLM]_vars

----------------------------------------------------------------------------
(* The knowledge import statement by statement, on the server's threads *)

\* the state the step actions leave alone
routeVars == <<configFile, files, req, resp, calls, lastSaved, threaded>>

\* the request arrives and the three checks before the try block are made; a
\* server that is not threaded takes a request when no other is being handled
ImportReceive ==
    \E w \in Workers, r \in ImportRequests :
        /\ handlers[w].pc = "idle"
        /\ threaded \/ \A v \in Workers : handlers[v].pc = "idle"
        /\ LET h == [IdleHandler EXCEPT !.req = r]
               reject(message) == [h EXCEPT !.pc = "done", !.resp = Error(400, message)]
           IN  handlers' = [handlers EXCEPT ![w] =
                   IF "knowledge_file" \notin DOMAIN r.fields
                   THEN reject("No file part in the request.")
                   ELSE IF r.fields["knowledge_file"] = <<>>
                   THEN reject("No selected file.")
                   ELSE IF ~allowed_file(r.fields["knowledge_file"])
                   THEN reject("File type not allowed. Only .txt files are accepted.")
                   ELSE [h EXCEPT !.pc = "save"]]
        /\ UNCHANGED <<tmp, dirs, routeVars>>

\* file.save(temp_file_path): the upload is written whole, or the write stops
\* part way, or the file cannot be opened
ImportSave ==
    \E w \in Workers, result \in {"ok", "partial", "failed"} :
        LET h == handlers[w]
            path == temp_file_path(h.req)
            failed == to_finally(h, Caught(500, "Error importing knowledge file", "OSError"))
        IN  /\ h.pc = "save"
            /\ tmp' = IF result = "ok" THEN [tmp EXCEPT ![path] = w]
                      ELSE IF result = "partial" THEN [tmp EXCEPT ![path] = "partial"]
                      ELSE tmp
            /\ handlers' = [handlers EXCEPT ![w] =
                    IF result = "ok" THEN [h EXCEPT !.pc = "makedirs", !.wrote = TRUE]
                    ELSE IF result = "partial" THEN [failed EXCEPT !.wrote = TRUE]
                    ELSE failed]
            /\ UNCHANGED <<dirs, routeVars>>

\* os.makedirs(filepath, exist_ok=True)
ImportMakedirs ==
    \E w \in Workers :
        LET h == handlers[w]
            project_name == project_of(h.req)
        IN  /\ h.pc = "makedirs"
            /\ \E mkdir_ok \in (IF project_name \in dirs THEN {TRUE} ELSE BOOLEAN) :
                IF mkdir_ok
                THEN /\ dirs' = dirs \cup {project_name}
                     /\ handlers' = [handlers EXCEPT ![w] = [h EXCEPT !.pc = "config"]]
                ELSE /\ dirs' = dirs
                     /\ handlers' = [handlers EXCEPT ![w] =
                            to_finally(h, Caught(500, "Error importing knowledge file",
                                                 "OSError"))]
            /\ UNCHANGED <<tmp, routeVars>>

\* get_embedding_config() and the return on its error message
ImportEmbeddingConfig ==
    \E w \in Workers :
        LET h == handlers[w]
            embedding == get_embedding_config(load_config(configFile))
        IN  /\ h.pc = "config"
            /\ handlers' = [handlers EXCEPT ![w] =
                    IF embedding.err # "none"
                    THEN to_finally(h, [Error(500, "Embedding Config Error")
                                           EXCEPT !.text = embedding.err])
                    ELSE [h EXCEPT !.pc = "import"]]
            /\ UNCHANGED <<tmp, dirs, routeVars>>

\* import_knowledge_file(..., file_path=temp_file_path, filepath=filepath) is entered
ImportCall ==
    \E w \in Workers :
        LET h == handlers[w]
            filepath == join(get_projects_base_path, project_of(h.req))
        IN  /\ h.pc = "import"
            /\ handlers' = [handlers EXCEPT ![w] =
                    [h EXCEPT !.pc = "importing",
                              !.calls = <<Call("import_knowledge_file", filepath, "running")>>]]
            /\ UNCHANGED <<tmp, dirs, routeVars>>

\* import_knowledge_file returns or raises
ImportReturn ==
    \E w \in Workers, outcome \in Outcomes :
        LET h == handlers[w]
            ended == [h EXCEPT !.calls[1].outcome = outcome]
        IN  /\ h.pc = "importing"
            /\ handlers' = [handlers EXCEPT ![w] =
                    IF outcome \in Raises
                    THEN to_finally(ended, Caught(500, "Error importing knowledge file",
                                                  outcome))
                    ELSE to_finally(ended, Json(200, "success",
                                                "Knowledge file imported successfully.",
                                                "none", "none"))]
            /\ UNCHANGED <<tmp, dirs, routeVars>>

\* finally: if os.path.exists(temp_file_path)
ImportExists ==
    \E w \in Workers :
        LET h == handlers[w]
        IN  /\ h.pc = "exists"
            /\ handlers' = [handlers EXCEPT ![w] =
                    [h EXCEPT !.pc = IF tmp[temp_file_path(h.req)] # "absent"
                                     THEN "remove" ELSE "done"]]
            /\ UNCHANGED <<tmp, dirs, routeVars>>

\* finally: os.remove(temp_file_path); on a file that is gone it raises out of
\* the finally clause and the held response is lost
ImportRemove ==
    \E w \in Workers :
        LET h == handlers[w]
            path == temp_file_path(h.req)
        IN  /\ h.pc = "remove"
            /\ tmp' = [tmp EXCEPT ![path] = "absent"]
            /\ handlers' = [handlers EXCEPT ![w] =
                    IF tmp[path] # "absent" THEN [h EXCEPT !.pc = "done"]
                    ELSE [h EXCEPT !.pc = "done", !.resp = Unhandled("FileNotFoundError")]]
            /\ UNCHANGED <<dirs, routeVars>>

\* the response is sent and the request context is torn down
ImportRespond ==
    \E w \in Workers :
        /\ handlers[w].pc = "done"
        /\ handlers' = [handlers EXCEPT ![w] = IdleHandler]
        /\ UNCHANGED <<tmp, dirs, routeVars>>

NextImport ==
    \/ ImportReceive
    \/ ImportSave
    \/ ImportMakedirs
    \/ ImportEmbeddingConfig
    \/ ImportCall
    \/ ImportReturn
    \/ ImportExists
    \/ ImportRemove
    \/ ImportRespond

\* the configuration files the imports are run against: none, the tests' one,
\* and one whose embedding entry lacks its api_key
ImportConfigFiles ==
    {NoFile, FileWith(dummy_config_data),
     FileWith([dummy_config_data EXCEPT
                   !["embedding_configs"] = [TestEmbed |-> [model_name |-> "word"]]])}

\* a server that handles one request at a time; the temporary folder may hold
\* files of the same names that others left there
InitImport ==
    /\ configFile \in ImportConfigFiles
    /\ dirs \in SUBSET ProjectNames
    /\ files = Unread
    /\ req = NoRequest
    /\ resp = NoResponse
    /\ calls = <<>>
    /\ lastSaved = NothingSaved
    /\ tmp \in [TempPaths -> {"absent", "stale"}]
    /\ handlers = [w \in Workers |-> IdleHandler]
    /\ threaded = FALSE

SpecImport == InitImport /\ [][NextImport]_vars

\* app.run(debug=True, host='0.0.0.0', port=5000): the development server
\* handles each request on a thread of its own
InitThreaded ==
    /\ configFile \in ImportConfigFiles
    /\ dirs \in SUBSET ProjectNames
    /\ files = Unread
    /\ req = NoRequest
    /\ resp = NoResponse
    /\ calls = <<>>
    /\ lastSaved = NothingSaved
    /\ tmp = NoTempFiles
    /\ handlers = [w \in Workers |-> IdleHandler]
    /\ threaded = TRUE

SpecThreaded == InitThreaded /\ [][NextImport]_vars

----------------------------------------------------------------------------
(* What the claims say of a configuration, stated without the helpers *)

\* the interface a document selects
SelectedInterface(config) ==
    IF "last_interface_format" \in DOMAIN config
    THEN config["last_interface_format"] ELSE "OpenAI"

\* the key is present with a value that is not empty
HasValue(entry, key) == key \in DOMAIN entry /\ entry[key] \notin {"empty", "zero", "null"}

\* the document holds a complete entry for the interface it selects
UsableLLM(config) ==
    /\ config # EmptyDict
    /\ "llm_configs" \in DOMAIN config
    /\ SelectedInterface(config) \in DOMAIN config["llm_configs"]
    /\ LET entry == config["llm_configs"][SelectedInterface(config)]
       IN  /\ HasValue(entry, "api_key")
           /\ HasValue(entry, "model_name")
           /\ HasValue(entry, "temperature")
           /\ HasValue(entry, "max_tokens")
           /\ HasValue(entry, "timeout")
           /\ SelectedInterface(config) = "OpenAI" => HasValue(entry, "base_url")

\* the document the handlers load
Loaded == load_config(configFile)

\* the embedding interface a document selects
SelectedEmbedding(config) ==
    IF "last_embedding_interface_format" \in DOMAIN config
    THEN config["last_embedding_interface_format"] ELSE "OpenAI"

\* the document holds a complete entry for the embedding interface it selects
UsableEmbedding(config) ==
    /\ config # EmptyDict
    /\ "embedding_configs" \in DOMAIN config
    /\ SelectedEmbedding(config) \in DOMAIN config["embedding_configs"]
    /\ LET entry == config["embedding_configs"][SelectedEmbedding(config)]
       IN  HasValue(entry, "api_key") /\ HasValue(entry, "model_name")

\* temperature, max_tokens and timeout of the selected entry are numbers or
\* numeric strings
NumericSettings(config) ==
    LET entry == config["llm_configs"][SelectedInterface(config)]
    IN  \A key \in {"temperature", "max_tokens", "timeout"} :
            entry[key] \in {"num", "numstr"}

\* the endpoints that need the LLM configuration, their delegates and fields
NovelEndpoints ==
    {"architecture", "blueprint", "chapter_draft", "finalize_chapter", "check_consistency"}

Delegate(ep) ==
    CASE ep = "architecture"      -> "Novel_architecture_generate"
      [] ep = "blueprint"         -> "Chapter_blueprint_generate"
      [] ep = "chapter_draft"     -> "generate_chapter_draft"
      [] ep = "finalize_chapter"  -> "finalize_chapter"
      [] ep = "check_consistency" -> "check_consistency"
      [] ep = "vectorstore_clear" -> "clear_vector_store"
      [] ep = "import_knowledge"  -> "import_knowledge_file"
      [] ep = "save_config"       -> "save_config"
      [] OTHER                    -> "none"

RequiredFields(ep) ==
    CASE ep = "blueprint"         -> {"num_chapters"}
      [] ep = "chapter_draft"     -> {"novel_number", "word_number"}
      [] ep = "finalize_chapter"  -> {"novel_number", "word_number"}
      [] ep = "check_consistency" -> {"chapter_number"}
      [] OTHER                    -> {}

\* the project the request is about
RequestedProject == IF req.project_name = "absent" THEN "default_project" ELSE req.project_name

RequestedPath == <<"novel_projects", RequestedProject>>

\* the body is a JSON object and project_name, when given, is a string
ObjectBody == req.body \in {"emptyobj", "object"} /\ req.project_name # "nonstring"

\* a well-formed request: a non-empty object, every required field given, every
\* numeric field a number
WellFormed ==
    /\ req.body = "object"
    /\ req.project_name # "nonstring"
    /\ RequiredFields(req.ep) \subseteq DOMAIN req.fields
    /\ \A k \in DOMAIN req.fields : req.fields[k] = "num"

\* architecture, blueprint and chapter_draft create the project directory first:
\* it exists once they are through unless os.makedirs failed
DirectoryReady ==
    req.ep \in {"architecture", "blueprint", "chapter_draft"} => RequestedProject \in dirs

\* no delegated call of the request raised
NoneRaised == \A i \in 1..Len(calls) : calls[i].outcome \notin Raises

----------------------------------------------------------------------------
(* C1 *)

\* C1: configuration round-trip.  Once POST /api/config with a JSON object C has
\* been answered 200 "Configuration saved.", a GET /api/config with no other save
\* in between is answered 200 with a body equal to C, keys the application does
\* not know included.
C1_ConfigRoundTrip ==
    (req.ep = "get_config" /\ lastSaved.set) =>
        /\ resp.code = 200
        /\ resp.json
        /\ resp.body = lastSaved.doc

\* a GET returns a saved document that carries a key the application does not know
C1_Witness ==
    /\ req.ep = "get_config"
    /\ lastSaved.set
    /\ resp.code = 200
    /\ "new_key" \in DOMAIN resp.body
    /\ resp.body = lastSaved.doc

----------------------------------------------------------------------------
(* C9 *)

\* C9: POST /api/config with a body that is no JSON object (array, string, number,
\* null) is answered 400 with status "error", save_config is not called, and the
\* stored configuration is unchanged: GET /api/config answers after the request
\* what it answered before it.
C9_NonObjectRejected ==
    [][(req'.ep = "save_config" /\ req'.body \in {"array", "string", "number", "null"}) =>
          /\ resp'.code = 400
          /\ resp'.json
          /\ resp'.status = "error"
          /\ calls' = <<>>
          /\ configFile' = configFile
          /\ get_config_api(configFile').resp = get_config_api(configFile).resp]_vars

\* an array is posted over a configuration saved before, and rejected
C9_Witness ==
    /\ req.ep = "save_config"
    /\ req.body = "array"
    /\ resp.code = 400
    /\ calls = <<>>
    /\ lastSaved.set
    /\ configFile = FileWith(lastSaved.doc)

----------------------------------------------------------------------------
(* C10 *)

\* C10: get_llm_config returns a configuration (error message None) exactly when
\* the loaded document is not empty, the selected interface (last_interface_format,
\* "OpenAI" when absent) is a key of llm_configs and its entry has api_key,
\* model_name, temperature, max_tokens and timeout present and not empty, and
\* base_url too when the interface is "OpenAI".  It then returns that entry and the
\* interface name; otherwise it returns (None, None, message).  A numeric 0 counts
\* as empty: an entry whose temperature is 0 is rejected.
C10_LLMConfigExactly ==
    LET result == get_llm_config(Loaded)
    IN  /\ (result.err = "none") <=> UsableLLM(Loaded)
        /\ result.err = "none" =>
               /\ result.iface = SelectedInterface(Loaded)
               /\ result.cfg = Loaded["llm_configs"][SelectedInterface(Loaded)]
        /\ result.err # "none" => (result.cfg = EmptyDict /\ result.iface = "none")
        /\ ( /\ "llm_configs" \in DOMAIN Loaded
             /\ SelectedInterface(Loaded) \in DOMAIN Loaded["llm_configs"]
             /\ "temperature" \in DOMAIN Loaded["llm_configs"][SelectedInterface(Loaded)]
             /\ Loaded["llm_configs"][SelectedInterface(Loaded)]["temperature"] = "zero" )
           => result.err # "none"

\* an entry complete but for a temperature of 0 is loaded and finalize_chapter is
\* refused with the configuration error
C10_Witness ==
    /\ req.ep = "finalize_chapter"
    /\ req.body = "object"
    /\ resp.message = "LLM Config Error"
    /\ "llm_configs" \in DOMAIN Loaded
    /\ "TestLLM" \in DOMAIN Loaded["llm_configs"]
    /\ Loaded["llm_configs"]["TestLLM"] = With(Without(GoodLLM, "base_url"), "temperature", "zero")
    /\ SelectedInterface(Loaded) = "TestLLM"

----------------------------------------------------------------------------
(* C2 *)

\* what C2 promises of an architecture request
ArchitectureDelegated ==
    /\ Len(calls) = 1
    /\ calls[1].fn = "Novel_architecture_generate"
    /\ calls[1].filepath = RequestedPath
    /\ resp.code = 200
    /\ resp.json
    /\ resp.status = "success"
    /\ resp.filepath = RequestedPath

----------------------------------------------------------------------------
(* C3 *)

LLMConfigErrorAnswered ==
    /\ resp.code = 500
    /\ resp.json
    /\ resp.status = "error"
    /\ resp.message = "LLM Config Error"
    /\ calls = <<>>

\* C3 as stated: when the selected LLM interface has no usable configuration,
\* every otherwise well-formed request to architecture, blueprint, chapter_draft,
\* finalize_chapter and check_consistency is answered 500 "error" with a message
\* containing "LLM Config Error", and the external function is not called.
C3_AsStated ==
    (req.ep \in NovelEndpoints /\ ~UsableLLM(Loaded) /\ WellFormed) => LLMConfigErrorAnswered

\* C3 amended: the same when, for architecture, blueprint and chapter_draft, the
\* project directory exists or could be created; when os.makedirs fails these
\* three answer 500 "Could not create project directory" before the
\* configuration is looked at, and still call nothing.
C3_LLMConfigError ==
    /\ (req.ep \in NovelEndpoints /\ ~UsableLLM(Loaded) /\ WellFormed /\ DirectoryReady)
           => LLMConfigErrorAnswered
    /\ (req.ep \in NovelEndpoints /\ ~UsableLLM(Loaded) /\ WellFormed /\ ~DirectoryReady)
           => /\ resp.code = 500
              /\ resp.json
              /\ resp.status = "error"
              /\ resp.message = "Could not create project directory"
              /\ calls = <<>>

\* a well-formed chapter_draft request meets an entry with an empty api_key
C3_Witness ==
    /\ req.ep = "chapter_draft"
    /\ WellFormed
    /\ Loaded = WithLLM(dummy_config_data, "TestLLM", With(GoodLLM, "api_key", "empty"))
    /\ LLMConfigErrorAnswered

----------------------------------------------------------------------------
(* C4 *)

\* a request with an object body that lacks a field its endpoint requires
LacksRequiredField ==
    /\ req.ep \in {"blueprint", "chapter_draft", "finalize_chapter", "check_consistency"}
    /\ ObjectBody
    /\ ~(RequiredFields(req.ep) \subseteq DOMAIN req.fields)

\* the configurations the endpoint validates before it looks at the body
ConfigurationReady ==
    /\ req.ep \in {"blueprint", "chapter_draft", "finalize_chapter"} => UsableLLM(Loaded)
    /\ req.ep \in {"chapter_draft", "finalize_chapter"} => UsableEmbedding(Loaded)

\* C4 as stated: every request that lacks a required field is answered 400, in
\* every state of the configuration file and of the project files, and the
\* external function is not called.
C4_AsStated ==
    LacksRequiredField => (resp.code = 400 /\ calls = <<>>)

\* C4 amended: a request that lacks a required field never reaches the external
\* function.  check_consistency answers it 400 in every state; blueprint,
\* chapter_draft and finalize_chapter answer it 400 when the configuration they
\* validate first is usable and the project directory exists or could be
\* created, and otherwise 500 (configuration or directory error).
C4_MissingFields ==
    LacksRequiredField =>
        /\ calls = <<>>
        /\ resp.json
        /\ resp.status = "error"
        /\ req.ep = "check_consistency" => resp.code = 400
        /\ (ConfigurationReady /\ DirectoryReady) => resp.code = 400
        /\ ~ConfigurationReady =>
               (resp.code = 400 <=> req.ep = "check_consistency")
        /\ resp.code \in {400, 500}

\* chapter_draft is sent novel_number without word_number under a good configuration
C4_Witness ==
    /\ req.ep = "chapter_draft"
    /\ req.body = "object"
    /\ DOMAIN req.fields = {"novel_number"}
    /\ ConfigurationReady
    /\ resp.code = 400
    /\ resp.message = "Missing 'novel_number' or 'word_number'."

----------------------------------------------------------------------------
(* C5 *)

\* the four files check_consistency cannot do without
FourFiles ==
    {"Novel_architecture.txt", "character_state.txt", "global_summary.txt", "chapter_n.txt"}

\* the request got as far as reading the project files: its body and
\* chapter_number passed and the LLM configuration is usable
ReadsProjectFiles ==
    req.ep = "check_consistency" /\ WellFormed /\ UsableLLM(Loaded)

\* C5: in POST /api/novel/check_consistency the checker is called only when
\* Novel_architecture.txt, character_state.txt, global_summary.txt and
\* chapters/chapter_<n>.txt were all read as non-empty text; a request that reaches
\* the reads with one of the four missing or empty is answered 404 "error" and
\* the checker is not called.  plot_arcs.txt is optional: a 404 always goes with
\* one of the four being missing or empty, and with the four in place the
\* checker is given whatever plot_arcs.txt held, empty text included.
C5_ConsistencyFiles ==
    req.ep = "check_consistency" =>
        /\ calls # <<>> => \A name \in FourFiles : files[name] = "text"
        /\ (ReadsProjectFiles /\ \E name \in FourFiles : files[name] # "text") =>
               /\ resp.code = 404
               /\ resp.json
               /\ resp.status = "error"
               /\ calls = <<>>
        /\ resp.code = 404 => \E name \in FourFiles : files[name] # "text"
        /\ ( /\ ReadsProjectFiles
             /\ NumericSettings(Loaded)
             /\ \A name \in FourFiles : files[name] = "text" ) =>
               /\ Len(calls) = 1
               /\ calls[1].fn = "check_consistency"
               /\ calls[1].plot_arcs =
                      IF files["plot_arcs.txt"] = "text" THEN "word" ELSE "empty"

\* the checker runs on a project that has the four files and no plot_arcs.txt
C5_Witness ==
    /\ req.ep = "check_consistency"
    /\ Len(calls) = 1
    /\ files["plot_arcs.txt"] = "missing"
    /\ \A name \in FourFiles : files[name] = "text"
    /\ resp.code = 200

----------------------------------------------------------------------------
(* C6 *)

GeneratorRaised(exc) == Len(calls) = 1 /\ calls[1].outcome = exc

\* C6 as stated: missing files give 404 or 400 on every endpoint that depends on
\* a project file: when the generator raises FileNotFoundError in architecture,
\* blueprint, chapter_draft or finalize_chapter, and when plot_arcs.txt does not
\* exist for GET /api/novel/plot_arcs.
C6_AsStated ==
    /\ ( /\ req.ep \in {"architecture", "blueprint", "chapter_draft", "finalize_chapter"}
         /\ GeneratorRaised("FileNotFoundError") ) => resp.code \in {400, 404}
    /\ (req.ep = "plot_arcs" /\ files["plot_arcs.txt"] = "missing") => resp.code \in {400, 404}

\* C6 amended: when the generator raises FileNotFoundError, blueprint,
\* chapter_draft and finalize_chapter answer 400 "error" with the exception text;
\* architecture has no clause for it and answers 500 "error" with the exception
\* text; GET /api/novel/plot_arcs answers 200 "success" with an empty
\* plot_arcs_text when plot_arcs.txt does not exist.
C6_MissingFiles ==
    /\ ( /\ req.ep \in {"blueprint", "chapter_draft", "finalize_chapter"}
         /\ GeneratorRaised("FileNotFoundError") ) =>
           /\ resp.code = 400
           /\ resp.json
           /\ resp.status = "error"
           /\ resp.text = "FileNotFoundError"
    /\ (req.ep = "architecture" /\ GeneratorRaised("FileNotFoundError")) =>
           /\ resp.code = 500
           /\ resp.json
           /\ resp.status = "error"
           /\ resp.message = "Error generating novel architecture"
           /\ resp.text = "FileNotFoundError"
    /\ (req.ep = "plot_arcs" /\ files["plot_arcs.txt"] \in {"missing", "empty"}) =>
           /\ resp.code = 200
           /\ resp.json
           /\ resp.status = "success"
           /\ resp.body = [project_name |-> RequestedProject, plot_arcs_text |-> "empty"]

\* the blueprint generator finds no architecture file and raises
C6_Witness ==
    /\ req.ep = "blueprint"
    /\ GeneratorRaised("FileNotFoundError")
    /\ resp.code = 400
    /\ resp.message = "Prerequisite file not found"

----------------------------------------------------------------------------
(* C7 *)

\* C7: every exception raised while an /api endpoint handles a request, by the
\* external function or by the handler's own parsing of request values, and not
\* mapped to 400/404 by a more specific rule, yields a JSON response with HTTP
\* 500, status "error" and a message that contains the exception's text; no
\* request ends with a non-JSON framework error page.  The body is a JSON object
\* with a string project_name, as the claim's example (int() on a non-numeric
\* num_chapters or word_number in architecture) has it.
C7_ExceptionsBecomeJson500 ==
    (~Idle /\ ObjectBody) =>
        /\ resp.json
        /\ (resp.raised # "none" /\ resp.code \notin {400, 404}) =>
               /\ resp.code = 500
               /\ resp.status = "error"
               /\ resp.text = resp.raised

----------------------------------------------------------------------------
(* C8 *)

\* the delegated call raised, or returned the value its caller takes for failure
Failed(call) ==
    \/ call.outcome \in Raises
    \/ /\ call.outcome = "falsy"
       /\ call.fn \in {"save_config", "clear_vector_store", "generate_chapter_draft"}

\* C8: no retry.  For every request to every endpoint the external function the
\* endpoint delegates to is invoked at most once, it is that endpoint's own
\* function, and after it raises or reports failure no further external call is
\* made: the error response (status "error", 400 or 500) is returned.
C8_NoRetry ==
    /\ Len(calls) <= 1
    /\ calls # <<>> =>
           /\ calls[1].fn = Delegate(req.ep)
           /\ Failed(calls[1]) =>
                  /\ resp.json
                  /\ resp.status = "error"
                  /\ resp.code \in {400, 500}

\* clear_vector_store reports failure once and the request ends with 500
C8_Witness ==
    /\ req.ep = "vectorstore_clear"
    /\ Len(calls) = 1
    /\ calls[1].outcome = "falsy"
    /\ resp.code = 500
    /\ resp.status = "error"

----------------------------------------------------------------------------
(* C11 *)

\* the name ends in ".txt", in either case
HasTxtExtension(filename) ==
    Len(filename) >= 2 /\ filename[Len(filename)] \in {"txt", "TXT"}

\* the upload passes the three checks: a file part, a name, a .txt extension
Accepted(r) ==
    /\ "knowledge_file" \in DOMAIN r.fields
    /\ r.fields["knowledge_file"] # <<>>
    /\ HasTxtExtension(r.fields["knowledge_file"])

\* the response of the thread's request has been returned
Returned(w) == handlers[w].pc = "done"

\* C11: temp-file cleanup in POST /api/knowledge/import.  For a request handled
\* alone, once the response is returned the temporary upload file (the temp dir
\* joined with the secured filename) does not exist, on every exit path of an
\* accepted upload: success, embedding-config error, exception in save,
\* makedirs or import.  A rejected upload (no file part, empty filename, an
\* extension other than .txt in either case) never writes a temp file and
\* never calls import_knowledge_file.
C11_TempFileCleanup ==
    \A w \in Workers :
        LET h == handlers[w]
        IN  /\ (Returned(w) /\ Accepted(h.req)) =>
                   /\ tmp[secure_filename(h.req.fields["knowledge_file"])] = "absent"
                   /\ h.resp.code \in {200, 500}
            /\ (h.pc # "idle" /\ ~Accepted(h.req)) =>
                   /\ ~h.wrote
                   /\ h.calls = <<>>
                   /\ h.pc = "done"

\* "../notes.txt" was saved as notes.txt, the embedding configuration was
\* refused with 500, and the file is gone when the response is returned
C11_Witness ==
    \E w \in Workers :
        LET h == handlers[w]
        IN  /\ Returned(w)
            /\ h.req.fields = [knowledge_file |-> <<"", "", "/notes", "txt">>]
            /\ h.wrote
            /\ h.resp.code = 500
            /\ h.resp.message = "Embedding Config Error"
            /\ h.calls = <<>>
            /\ tmp[<<"notes", "txt">>] = "absent"

----------------------------------------------------------------------------
(* C12 *)

\* C12: POST /api/vectorstore/clear calls clear_vector_store only when the
\* project directory exists at the time of the check.  If it does not exist,
\* nothing is cleared or created, and a request that reaches the check (its
\* body a non-empty JSON object, project_name a string when given) is answered
\* 404.  When clear_vector_store is called it is called once with the project
\* path: a true result gives 200 "success", a false result 500 "error", an
\* exception 500 "error" with the exception text.
C12_ClearOnlyExisting ==
    [][req'.ep = "vectorstore_clear" =>
          LET project == IF req'.project_name = "absent" THEN "default_project"
                         ELSE req'.project_name
              existed == project \in dirs
              reached == req'.body = "object" /\ req'.project_name # "nonstring"
          IN  /\ calls' # <<>> =>
                     /\ existed
                     /\ Len(calls') = 1
                     /\ calls'[1].fn = "clear_vector_store"
                     /\ calls'[1].filepath = <<"novel_projects", project>>
              /\ ~existed =>
                     /\ calls' = <<>>
                     /\ dirs' = dirs
                     /\ reached => (resp'.code = 404 /\ resp'.json /\ resp'.status = "error")
              /\ (reached /\ existed) => calls' # <<>>
              /\ calls' # <<>> =>
                     /\ resp'.json
                     /\ calls'[1].outcome = "ok" =>
                            resp'.code = 200 /\ resp'.status = "success"
                     /\ calls'[1].outcome = "falsy" =>
                            resp'.code = 500 /\ resp'.status = "error"
                     /\ calls'[1].outcome \in Raises =>
                            /\ resp'.code = 500
                            /\ resp'.status = "error"
                            /\ resp'.text = calls'[1].outcome]_vars

\* a project that has no directory is to be cleared: 404, no call, no directory
C12_Witness ==
    /\ req.ep = "vectorstore_clear"
    /\ req.body = "object"
    /\ req.project_name = "default_project_test"
    /\ "default_project_test" \notin dirs
    /\ resp.code = 404
    /\ calls = <<>>

----------------------------------------------------------------------------
(* C13 *)

\* the thread is inside import_knowledge_file
Importing(w) == handlers[w].pc = "importing"

\* two threads hold accepted uploads that map to the same secured filename
SameSecuredName(w, v) ==
    /\ w # v
    /\ handlers[w].pc # "idle" /\ Accepted(handlers[w].req)
    /\ handlers[v].pc # "idle" /\ Accepted(handlers[v].req)
    /\ secure_filename(handlers[w].req.fields["knowledge_file"])
           = secure_filename(handlers[v].req.fields["knowledge_file"])

\* C13: when two POST /api/knowledge/import requests whose uploads map to the
\* same secured filename are handled concurrently, in every state in which one
\* of them is inside import_knowledge_file the temp file it was given exists
\* and holds that request's own upload: the other request's save has not
\* overwritten it and the other request's cleanup has not removed it.
C13_ConcurrentImportsIsolated ==
    \A w, v \in Workers :
        (SameSecuredName(w, v) /\ Importing(w)) =>
            tmp[secure_filename(handlers[w].req.fields["knowledge_file"])] = w

====
